---- MODULE Spec2Model ----
(***************************************************************************)
(* Question answering over a long context (notebook cells "Processing",    *)
(* "Preprocessing", "Postprocessing", "Main Processing Function"):         *)
(* load_context, prepare_input / pad, postprocess,                         *)
(* find_best_answer_window, get_best_answer, run_question_answering.       *)
(*                                                                         *)
(* Texts are sequences of one-character strings.  Token and character      *)
(* positions are 0-based as in the Python source; TLA+ sequences are       *)
(* 1-based, so element i of a Python list xs is xs[i + 1] here.            *)
(*                                                                         *)
(* Logits are drawn from the integer multiples k * ln 2, written k, so     *)
(* that np.exp(logit) = 2^k is exact; a probability is kept as the pair    *)
(* (numerator, denominator) and a score as <<numerator, denominator>>.     *)
(***************************************************************************)
EXTENDS Integers, Sequences, FiniteSets, TLC

\* ---------------------------------------------------------------- bounds
\* input_size = compiled_model.input(0).shape[1] (384 for the BERT models).
InputSize == 22
\* Longest context, in tokens.
MaxCtxTokens == 28
\* Longest question, in tokens.
MaxQuestionTokens == 4
\* Questions a user types in one interactive session before the empty one.
MaxQuestions == 1
\* Longest context, in tokens, handed to prepare_input on its own.
MaxPrepTokens == 50
\* Context tokens of the runs on logits of any height.
MaxScoreTokens == 4
\* Sources handed to load_context on its own.
MaxSources == 3
\* ------------------------------------------------------ program constants
\* prepare_input: "if context_len < 16".
MinContextLen == 16
\* find_best_answer_window: np.tril(score_mat, 16).
MaxAnswerDiag == 16
\* np.exp overflows float32 from 2^128 on: logits count in units of ln 2.
ExpOverflowAt == 128

Max(a, b) == IF a >= b THEN a ELSE b
Min(a, b) == IF a <= b THEN a ELSE b

\* ------------------------------------------------------------ characters
IsSpace(ch) == ch \in {" ", "\n"}
IsPunct(ch) == ch \in {",", "?"}

\* str.lower() on one character.
LowerChar(ch) == IF ch = "A" THEN "a" ELSE ch
Lower(text) == [i \in 1..Len(text) |-> LowerChar(text[i])]

\* Python text[a:b] for 0 <= a, 0 <= b (clamped to the text).
Slice(text, a, b) == SubSeq(text, a + 1, Min(b, Len(text)))

\* ------------------------------------------------- tokens_bert (external)
\* vocab["[CLS]"], vocab["[PAD]"], vocab["[SEP]"].
cls_token == 101
pad_token == 0
sep_token == 102

\* Vocabulary lookup of one lower-cased token text.
VocabId(tok) == IF Len(tok) = 1 /\ IsPunct(tok[1]) THEN 1010 ELSE 2000 + Len(tok)

\* text_to_tokens: white space separates words, a punctuation character is
\* a token of its own.  A token starts at every non-blank character that is
\* a punctuation character or follows a blank, a punctuation character or
\* the start of the text (1-based positions).
IsWordChar(ch) == ~IsSpace(ch) /\ ~IsPunct(ch)

TokenStarts(text) ==
  {i \in 1..Len(text) :
     \/ IsPunct(text[i])
     \/ IsWordChar(text[i]) /\ (i = 1 \/ ~IsWordChar(text[i - 1]))}

\* The last character (1-based) of the token that starts at i.
TokenLast(text, i) ==
  IF IsPunct(text[i]) THEN i
  ELSE CHOOSE j \in i..Len(text) :
         /\ \A k \in i..j : IsWordChar(text[k])
         /\ j = Len(text) \/ ~IsWordChar(text[j + 1])

\* The 0-based half-open character range of the k-th token (k from 1).
TokenRange(text, starts, k) ==
  LET i == CHOOSE x \in starts : Cardinality({j \in starts : j < x}) = k - 1
  IN  <<i - 1, TokenLast(text, i)>>

TokenRanges(text, starts) == [k \in 1..Cardinality(starts) |-> TokenRange(text, starts, k)]

TokenIds(text, se) == [i \in 1..Len(se) |-> VocabId(Slice(text, se[i][1], se[i][2]))]

TokensOf(text, se) == [ids |-> TokenIds(text, se), se |-> se]

\* tokens.text_to_tokens(text, vocab): (token ids, character ranges), in
\* text order.
text_to_tokens(text) == TokensOf(text, TokenRanges(text, TokenStarts(text)))

\* ---------------------------------------------------------- input texts
\* lead blanks, then n words "Aa" separated by one blank.
WordsText(lead, n) ==
  [i \in 1..(lead + (IF n = 0 THEN 0 ELSE 3 * n - 1)) |->
      IF i <= lead THEN " "
      ELSE LET r == (i - lead - 1) % 3
           IN  IF r = 0 THEN "A" ELSE IF r = 1 THEN "a" ELSE " "]

\* n punctuation tokens with no white space between them.
PunctText(n) == [i \in 1..n |-> ","]

\* The contexts explored: " ", " Aa", " Aa Aa", ..., and "" and the longest
\* all-punctuation context ",,,...".
ContextTexts ==
  {WordsText(1, n) : n \in 0..MaxCtxTokens} \cup {PunctText(0), PunctText(MaxCtxTokens)}

\* The questions explored: "", " ", "Aa", "Aa Aa", ...
QuestionTexts ==
  {WordsText(0, 0), WordsText(1, 0)} \cup {WordsText(0, k) : k \in 1..MaxQuestionTokens}

\* ----------------------------------------------------------------- state
VARIABLES
  input_size,                \* global: the network input size
  sources,                   \* argument of run_question_answering
  example_question,          \* argument: <<>> is None, <<text>> a question
  pc,                        \* where run_question_answering stands
  context,                   \* run_question_answering: the loaded context
  question,                  \* the question being answered
  question_tokens,           \* get_best_answer: token ids of the question
  context_tokens,            \* get_best_answer: token ids of the context
  context_tokens_start_end,  \* get_best_answer: character range of each token
  gen,                       \* the prepare_input generator: started, next start
  window,                    \* <<>> or <<the tuple prepare_input yielded>>
  result,                    \* <<>> or <<the logits compiled_model returned>>
  span,                      \* <<>> or <<what find_best_answer_window returned>>
  results,                   \* get_best_answer: one candidate per window
  answer,                    \* <<>> or <<the answer returned and printed>>
  error,                     \* the exception that left run_question_answering
  printed_error,             \* "Error: Empty context or outside paragraphs"
  emitted,                   \* history: window starts yielded for this question
  infer_calls,               \* history: compiled_model calls for this question
  asked,                     \* history: non-empty questions read by input()
  answered                   \* history: answers printed

\* The ConvE notebook: the two evaluation loops over the test triples.
VARIABLES
  triples_list,              \* data.test_triples_list: <<h, r, t_ents>> each
  pt_model,                  \* top-K ids the PyTorch model gives per sample
  ov_model,                  \* top-K ids the compiled model gives per sample
  conve_pc,                  \* which evaluation cell runs: "pt", "ov", ...
  loop_i,                    \* i of the running loop: samples already scored
  target_t,                  \* the global t, bound by "h, r, t = test_sample"
  gt,                        \* the global gt: <<>> or <<sorted targets>>
  pred,                      \* the global pred: <<>> or <<sorted top-K ids>>
  pt_acc,                    \* accumulated matches of the PyTorch loop
  ov_acc                     \* accumulated matches of the OpenVINO loop

\* The monodepth notebook: the cell that turns a video into a depth video.
VARIABLES
  NUM_SECONDS,               \* setting, in half seconds (3 is 1.5 s)
  ADVANCE_FRAMES,            \* setting: every ADVANCE_FRAMES-th frame
  input_fps,                 \* cap.get(CAP_PROP_FPS), in half frames per s
  frame_count,               \* cap.get(CAP_PROP_FRAME_COUNT) of the file
  readable_frames,           \* cap.read() succeeds below this position
  video_pc,                  \* where the cell stands: "loop", "finally", ...
  cap_opened,                \* cap.isOpened()
  out_opened,                \* out_video has not been released
  input_video_frame_nr,      \* position of the next frame to read
  num_frames,                \* int(NUM_SECONDS * input_fps)
  total_frames,              \* the frame limit of the loop
  total_inference_duration,  \* in units of one inference
  exit_by,                   \* how the while loop was left: "end", "limit", ...
  processed_frames,          \* <<>> or <<the count the finally block made>>
  summary,                   \* <<>> or <<the count printed as processed>>
  inferred,                  \* history: frame numbers given to the network
  written                    \* history: frame numbers written to out_video

\* The vehicle notebook: one call of convert_result_to_image.
VARIABLES
  image_de,                  \* global: shape <<height, width>> of the image read
  call_bgr_image,            \* argument bgr_image: shape <<height, width>>
  call_resized_image,        \* argument resized_image: shape <<height, width>>
  call_boxes,                \* argument boxes: rows <<conf, x0, y0, x1, y1>>
  call_threshold,            \* argument threshold, in tenths
  detect_pc,                 \* "call" before the call, "done" after it
  rgb_image                  \* rectangles drawn on the returned image

qaVars == <<input_size, sources, example_question, pc, context, question,
            question_tokens, context_tokens, context_tokens_start_end, gen,
            window, result, span, results, answer, error, printed_error,
            emitted, infer_calls, asked, answered>>

conveVars == <<triples_list, pt_model, ov_model, conve_pc, loop_i, target_t,
               gt, pred, pt_acc, ov_acc>>

videoVars == <<NUM_SECONDS, ADVANCE_FRAMES, input_fps, frame_count,
               readable_frames, video_pc, cap_opened, out_opened,
               input_video_frame_nr, num_frames, total_frames,
               total_inference_duration, exit_by, processed_frames, summary,
               inferred, written>>

detectVars == <<image_de, call_bgr_image, call_resized_image, call_boxes,
                call_threshold, detect_pc, rgb_image>>

\* The variables of the notebooks other than question answering.
otherVars == <<conveVars, videoVars, detectVars>>

vars == <<qaVars, otherVars>>

\* The ConvE notebook before any of its evaluation cells has run.
ConvEIdle ==
  /\ triples_list = <<>>
  /\ pt_model = <<>>
  /\ ov_model = <<>>
  /\ conve_pc = "idle"
  /\ loop_i = 0
  /\ target_t = <<>>
  /\ gt = <<>>
  /\ pred = <<>>
  /\ pt_acc = 0
  /\ ov_acc = 0

\* The monodepth notebook before its video cell has run.
VideoIdle ==
  /\ NUM_SECONDS = 0
  /\ ADVANCE_FRAMES = 1
  /\ input_fps = 0
  /\ frame_count = 0
  /\ readable_frames = 0
  /\ video_pc = "idle"
  /\ cap_opened = FALSE
  /\ out_opened = FALSE
  /\ input_video_frame_nr = 0
  /\ num_frames = 0
  /\ total_frames = 0
  /\ total_inference_duration = 0
  /\ exit_by = "none"
  /\ processed_frames = <<>>
  /\ summary = <<>>
  /\ inferred = <<>>
  /\ written = <<>>

\* The vehicle notebook with no call of convert_result_to_image under way.
DetectIdle ==
  /\ image_de = <<0, 0>>
  /\ call_bgr_image = <<0, 0>>
  /\ call_resized_image = <<0, 0>>
  /\ call_boxes = <<>>
  /\ call_threshold = 0
  /\ detect_pc = "idle"
  /\ rgb_image = <<>>

OtherIdle == ConvEIdle /\ VideoIdle /\ DetectIdle

\* ---------------------------------------------------------- load_context
\* parse.urlparse(source): all([result.scheme, result.netloc]).
IsUrl(source) == source.scheme /\ source.netloc

\* "\n".join(paragraphs)
RECURSIVE JoinNewline(_)
JoinNewline(ps) ==
  IF Len(ps) = 0 THEN <<>>
  ELSE IF Len(ps) = 1 THEN ps[1]
  ELSE ps[1] \o <<"\n">> \o JoinNewline(Tail(ps))

\* reader.get_paragraphs(input_urls): the paragraphs read at the URLs, in
\* the order of the URLs (source.text stands for the paragraph read there).
get_paragraphs(input_urls) == [i \in 1..Len(input_urls) |-> input_urls[i].text]

\* A load_context that puts what was read at the URLs first.
load_contextUrlsFirst(srcs) ==
  LET NotUrl(s) == ~IsUrl(s)
      paragraphs == SelectSeq(srcs, NotUrl)
  IN  JoinNewline(get_paragraphs(SelectSeq(srcs, IsUrl))
                    \o [i \in 1..Len(paragraphs) |-> paragraphs[i].text])

\* The literal sources in order, then what reader.get_paragraphs returns
\* for the URL sources.
load_context(srcs) ==
  LET NotUrl(s) == ~IsUrl(s)
      paragraphs == SelectSeq(srcs, NotUrl)
      input_urls == SelectSeq(srcs, IsUrl)
  IN  JoinNewline([i \in 1..Len(paragraphs) |-> paragraphs[i].text]
                    \o get_paragraphs(input_urls))

\* ------------------------------------------------------- prepare_input, pad
\* [x] * k
Rep(x, k) == [i \in 1..k |-> x]

\* context_len = input_size - question_len - 3
ContextLen(question_len) == input_size - question_len - 3

\* The threshold compared with <= instead of <.
TooLongInclusive(context_len) == context_len <= MinContextLen

\* if context_len < 16: raise RuntimeError
TooLong(context_len) == context_len < MinContextLen

\* A step rounded up instead of down.
RangeStepRoundedUp(context_len) == (context_len + 1) \div 2

\* A step of a whole window, with no overlap.
RangeStepWhole(context_len) == context_len

\* The step of range(0, max(1, len(context_tokens) - context_len), context_len // 2).
RangeStep(context_len) == context_len \div 2

\* A stop that lets a window start at n - c itself.
RangeStopInclusive(n, context_len) == Max(1, n - context_len + 1)

\* A stop at the end of the context instead of c tokens before it.
RangeStopWholeContext(n, context_len) == Max(1, n)

\* The stop of that range.
RangeStop(n, context_len) == Max(1, n - context_len)

\* A pad that appends one padding entry too few.
padShort(input_ids, attention_mask, token_type_ids) ==
  LET diff_input_size == input_size - Len(input_ids)
  IN  [input_ids      |-> input_ids \o Rep(pad_token, diff_input_size - 1),
       attention_mask |-> attention_mask \o Rep(0, diff_input_size - 1),
       token_type_ids |-> token_type_ids \o Rep(0, diff_input_size - 1),
       pad_number     |-> diff_input_size]

\* pad(input_ids, attention_mask, token_type_ids)
pad(input_ids, attention_mask, token_type_ids) ==
  LET diff_input_size == input_size - Len(input_ids)
  IN  IF diff_input_size > 0
      THEN [input_ids      |-> input_ids \o Rep(pad_token, diff_input_size),
            attention_mask |-> attention_mask \o Rep(0, diff_input_size),
            token_type_ids |-> token_type_ids \o Rep(0, diff_input_size),
            pad_number     |-> diff_input_size]
      ELSE [input_ids      |-> input_ids,
            attention_mask |-> attention_mask,
            token_type_ids |-> token_type_ids,
            pad_number     |-> diff_input_size]

\* A loop body that marks every position it fills as attended segment 1,
\* the question included.
MakeWindowOneSegment(q_tokens, c_tokens, start) ==
  LET context_len == ContextLen(Len(q_tokens))
      part_context_tokens == Slice(c_tokens, start, start + context_len)
      input_ids == <<cls_token>> \o q_tokens \o <<sep_token>>
                     \o part_context_tokens \o <<sep_token>>
      padded == pad(input_ids, Rep(1, Len(input_ids)), Rep(1, Len(input_ids)))
  IN  [input_ids      |-> padded.input_ids,
       attention_mask |-> padded.attention_mask,
       token_type_ids |-> padded.token_type_ids,
       pad_number     |-> padded.pad_number,
       start          |-> start]

\* The body of the for loop of prepare_input: the tuple yielded for start.
MakeWindow(q_tokens, c_tokens, start) ==
  LET question_len == Len(q_tokens)
      context_len == ContextLen(question_len)
      part_context_tokens == Slice(c_tokens, start, start + context_len)
      input_ids == <<cls_token>> \o q_tokens \o <<sep_token>>
                     \o part_context_tokens \o <<sep_token>>
      attention_mask == Rep(1, Len(input_ids))
      token_type_ids == Rep(0, question_len + 2) \o Rep(1, Len(part_context_tokens) + 1)
      padded == pad(input_ids, attention_mask, token_type_ids)
  IN  [input_ids      |-> padded.input_ids,
       attention_mask |-> padded.attention_mask,
       token_type_ids |-> padded.token_type_ids,
       pad_number     |-> padded.pad_number,
       start          |-> start]

\* The number of context tokens in a yielded window: the positions of
\* segment 1 but for the closing [SEP].
SliceSize(w) == Cardinality({i \in 1..Len(w.token_type_ids) : w.token_type_ids[i] = 1}) - 1

\* ------------------------------------------------------------- postprocess
\* The not-a-number of float arithmetic, kept apart from every numerator
\* (numerators are 0 or more).
NaN == -1

RECURSIVE Pow2(_)
Pow2(k) == IF k <= 0 THEN 1 ELSE 2 * Pow2(k - 1)

RECURSIVE SumSeq(_)
SumSeq(xs) == IF Len(xs) = 0 THEN 0 ELSE Head(xs) + SumSeq(Tail(xs))

\* get_score: out = np.exp(logits); out / out.sum(axis=-1).  np.exp of a
\* float32 logit of ExpOverflowAt * ln 2 or more is inf, and so is the sum:
\* inf / inf is nan and every finite exponential over inf is 0.
get_score(logits) ==
  IF \E i \in 1..Len(logits) : logits[i] >= ExpOverflowAt
  THEN [num |-> [i \in 1..Len(logits) |-> IF logits[i] >= ExpOverflowAt THEN NaN ELSE 0],
        den |-> 1]
  ELSE LET out == [i \in 1..Len(logits) |-> Pow2(logits[i])]
       IN  [num |-> out, den |-> SumSeq(out)]

\* The product of two floats: nan if either is nan.
Times(a, b) == IF a = NaN \/ b = NaN THEN NaN ELSE a * b

\* np.matmul(start_score[cs:ce].reshape((L, 1)), end_score[cs:ce].reshape((1, L)))
\* as numerators; entry <<i, j>> is row i (start), column j (end), 0-based.
ScoreMat(start_num, end_num, context_start_idx, context_end_idx) ==
  LET L == context_end_idx - context_start_idx
  IN  [p \in (0..(L - 1)) \X (0..(L - 1)) |->
         Times(start_num[context_start_idx + p[1] + 1],
               end_num[context_start_idx + p[2] + 1])]

\* No entry reset: candidates with the end before the start stay.
TriuKeepsAll(m) == m

\* np.triu(m): zero below the main diagonal.
Triu(m) == [p \in DOMAIN m |-> IF p[2] < p[1] THEN 0 ELSE m[p]]

\* np.tril(m, k): zero above the k-th diagonal.
Tril(m, k) == [p \in DOMAIN m |-> IF p[2] - p[1] > k THEN 0 ELSE m[p]]

\* m.flatten() of an L x L matrix, row-major.
Flatten(m, L) == [k \in 1..(L * L) |-> m[<<(k - 1) \div L, (k - 1) % L>>]]

\* The largest entry of a non-empty array.
MaxOf(a) == CHOOSE v \in {a[k] : k \in DOMAIN a} : \A k \in DOMAIN a : a[k] <= v

\* The 0-based index of the last entry of a that equals top.
LastIndexOf(a, top) ==
  (CHOOSE k \in 1..Len(a) : a[k] = top /\ \A j \in (k + 1)..Len(a) : a[j] # top) - 1

\* The 0-based index of the first entry of a that equals top.
FirstIndexOf(a, top) ==
  (CHOOSE k \in 1..Len(a) : a[k] = top /\ \A j \in 1..(k - 1) : a[j] # top) - 1

\* a.argmax(): the index of the first nan if there is one, else of the
\* first largest entry; a is not empty.
ArgMax(a) ==
  IF \E k \in 1..Len(a) : a[k] = NaN
  THEN FirstIndexOf(a, NaN)
  ELSE FirstIndexOf(a, MaxOf(a))

\* The masked score matrix of find_best_answer_window.
MaskedScoreMat(start_num, end_num, context_start_idx, context_end_idx) ==
  Tril(Triu(ScoreMat(start_num, end_num, context_start_idx, context_end_idx)),
       MaxAnswerDiag)

\* The quotient and the remainder of divmod taken the other way round.
BestAtSwapped(score_mat, flat, L, den) ==
  [max_score |-> <<score_mat[<<flat \div L, flat % L>>], den>>,
   max_s     |-> flat % L,
   max_e     |-> flat \div L]

\* max_s, max_e = divmod(flat, score_mat.shape[1]); max_score = score_mat[max_s, max_e]
BestAt(score_mat, flat, L, den) ==
  [max_score |-> <<score_mat[<<flat \div L, flat % L>>], den>>,
   max_s     |-> flat \div L,
   max_e     |-> flat % L]

\* score_mat.flatten().argmax() and what follows it.
BestOf(score_mat, L, den) == BestAt(score_mat, ArgMax(Flatten(score_mat, L)), L, den)

\* find_best_answer_window, for context_end_idx > context_start_idx.
find_best_answer_window(start_score, end_score, context_start_idx, context_end_idx) ==
  BestOf(MaskedScoreMat(start_score.num, end_score.num,
                        context_start_idx, context_end_idx),
         context_end_idx - context_start_idx,
         start_score.den * end_score.den)

\* postprocess: An index of the first context token in a tensor.
ContextStartIdx(q_tokens) == Len(q_tokens) + 2

\* An end index that takes the closing [SEP] into the region.
ContextEndIdxWithSep(padding) == input_size - padding

\* postprocess: An index of the last+1 context token in a tensor.
ContextEndIdx(padding) == input_size - padding - 1

\* The window-local indices used without the window's start index.
ToCharRangeLocal(best, start_end, start_idx) ==
  [score     |-> best.max_score,
   max_start |-> start_end[best.max_s + 1][1],
   max_end   |-> start_end[best.max_e + 1][2]]

\* postprocess: Convert to context text start-end index.
ToCharRange(best, start_end, start_idx) ==
  [score     |-> best.max_score,
   max_start |-> start_end[best.max_s + start_idx + 1][1],
   max_end   |-> start_end[best.max_e + start_idx + 1][2]]

\* ---------------------------------------------------------- get_best_answer
\* a > b for scores kept as <<numerator, denominator>>; false when either
\* is nan.
ScoreGreater(a, b) == a[1] # NaN /\ b[1] # NaN /\ a[1] * b[2] > b[1] * a[2]

\* A scan that keeps the last largest element.
RECURSIVE MaxScanLast(_, _, _)
MaxScanLast(rs, k, best) ==
  IF k > Len(rs) THEN rs[best]
  ELSE MaxScanLast(rs, k + 1,
                   IF ScoreGreater(rs[best].score, rs[k].score) THEN best ELSE k)

MaxByScoreLast(rs) == MaxScanLast(rs, 2, 1)

\* max(results, key=operator.itemgetter(0)): the scan keeps the first
\* largest element.
RECURSIVE MaxScan(_, _, _)
MaxScan(rs, k, best) ==
  IF k > Len(rs) THEN rs[best]
  ELSE MaxScan(rs, k + 1, IF ScoreGreater(rs[k].score, rs[best].score) THEN k ELSE best)

MaxByScore(rs) == MaxScan(rs, 2, 1)

\* ------------------------------------------------------ inference engine
\* The logits the engine may return: 0 everywhere but for one peak.
LogitVec(peak, height) == [i \in 1..input_size |-> IF i = peak + 1 THEN height ELSE 0]

\* Heights of the start-logit peak, in units of ln 2 (the end-logit peak has
\* height 1).
LogitHeights == {1, 2}

\* Peaks tried: [CLS], the first context position, and the positions 16 and
\* 17 after it (context tokens, the last [SEP] or padding, as the window has it).
PeakPositions(q_tokens) ==
  LET cs == Len(q_tokens) + 2
  IN  {0, cs, cs + MaxAnswerDiag, cs + MaxAnswerDiag + 1} \cap (0..(input_size - 1))

\* What compiled_model may return for one window.
EngineOutputs(q_tokens) ==
  {[output_s |-> LogitVec(ps, hs), output_e |-> LogitVec(pe, 1)] :
     ps \in PeakPositions(q_tokens), pe \in PeakPositions(q_tokens), hs \in LogitHeights}

\* What compiled_model may return when either peak may also be a logit
\* that overflows np.exp.
EngineOutputsAnyLogits(q_tokens) ==
  {[output_s |-> LogitVec(ps, hs), output_e |-> LogitVec(pe, he)] :
     ps \in PeakPositions(q_tokens), pe \in PeakPositions(q_tokens),
     hs \in LogitHeights \cup {ExpOverflowAt}, he \in {1, ExpOverflowAt}}

\* ------------------------------------------------------------------ Init
LiteralSource(text) == [scheme |-> FALSE, netloc |-> FALSE, text |-> text]

Init ==
  /\ OtherIdle
  /\ input_size = InputSize
  /\ sources \in {<<LiteralSource(t)>> : t \in ContextTexts}
  /\ example_question \in {<<>>} \cup {<<t>> : t \in QuestionTexts}
  /\ pc = "rqa"
  /\ context = <<>>
  /\ question = <<>>
  /\ question_tokens = <<>>
  /\ context_tokens = <<>>
  /\ context_tokens_start_end = <<>>
  /\ gen = [started |-> FALSE, start |-> 0]
  /\ window = <<>>
  /\ result = <<>>
  /\ span = <<>>
  /\ results = <<>>
  /\ answer = <<>>
  /\ error = "none"
  /\ printed_error = FALSE
  /\ emitted = <<>>
  /\ infer_calls = 0
  /\ asked = 0
  /\ answered = 0

\* ------------------------------------------------- run_question_answering
\* context = load_context(sources); the empty-context return; the choice
\* between the example question and the interactive loop.
RunStart ==
  /\ pc = "rqa"
  /\ LET loaded == load_context(sources)
     IN  /\ context' = loaded
         /\ IF Len(loaded) = 0
            THEN /\ printed_error' = TRUE
                 /\ pc' = "done"
                 /\ question' = question
            ELSE /\ printed_error' = printed_error
                 /\ IF example_question # <<>>
                    THEN /\ question' = example_question[1]
                         /\ pc' = "gba"
                    ELSE /\ question' = question
                         /\ pc' = "input"
  /\ UNCHANGED <<otherVars, input_size, sources, example_question, question_tokens,
                 context_tokens, context_tokens_start_end, gen, window, result,
                 span, results, answer, error, emitted, infer_calls, asked,
                 answered>>

\* A loop without the break: the empty question is answered like any other.
ReadInputNoBreak ==
  /\ pc = "input"
  /\ \E text \in QuestionTexts :
       /\ asked < MaxQuestions \/ text = <<>>
       /\ question' = text
       /\ pc' = "gba"
       /\ asked' = IF text = <<>> THEN asked ELSE asked + 1
  /\ answer' = <<>>
  /\ emitted' = <<>>
  /\ infer_calls' = 0
  /\ question_tokens' = <<>>
  /\ context_tokens' = <<>>
  /\ context_tokens_start_end' = <<>>
  /\ gen' = [started |-> FALSE, start |-> 0]
  /\ window' = <<>>
  /\ result' = <<>>
  /\ span' = <<>>
  /\ results' = <<>>
  /\ UNCHANGED <<otherVars, input_size, sources, example_question, context, error,
                 printed_error, answered>>

\* question = input(); if question == "": break.  The locals of the last
\* get_best_answer call and the answer printed for it are gone by now.
ReadInput ==
  /\ pc = "input"
  /\ \E text \in QuestionTexts :
       /\ asked < MaxQuestions \/ text = <<>>
       /\ question' = text
       /\ IF text = <<>>
          THEN /\ pc' = "done"
               /\ asked' = asked
          ELSE /\ pc' = "gba"
               /\ asked' = asked + 1
  /\ answer' = <<>>
  /\ emitted' = <<>>
  /\ infer_calls' = 0
  /\ question_tokens' = <<>>
  /\ context_tokens' = <<>>
  /\ context_tokens_start_end' = <<>>
  /\ gen' = [started |-> FALSE, start |-> 0]
  /\ window' = <<>>
  /\ result' = <<>>
  /\ span' = <<>>
  /\ results' = <<>>
  /\ UNCHANGED <<otherVars, input_size, sources, example_question, context, error,
                 printed_error, answered>>

\* ---------------------------------------------------------- get_best_answer
\* The two text_to_tokens calls, results = [], and the generator object.
Tokenize ==
  /\ pc = "gba"
  /\ \E c \in {text_to_tokens(Lower(context))} :
       /\ context_tokens' = c.ids
       /\ context_tokens_start_end' = c.se
  /\ question_tokens' = text_to_tokens(Lower(question)).ids
  /\ results' = <<>>
  /\ gen' = [started |-> FALSE, start |-> 0]
  /\ window' = <<>>
  /\ result' = <<>>
  /\ span' = <<>>
  /\ pc' = "next"
  /\ UNCHANGED <<otherVars, input_size, sources, example_question, context, question,
                 answer, error, printed_error, emitted, infer_calls, asked,
                 answered>>

\* An interactive loop that catches the error and asks for the next
\* question.
RaiseTooLongReprompt ==
  /\ pc = "next"
  /\ ~gen.started
  /\ TooLong(ContextLen(Len(question_tokens)))
  /\ error' = "RuntimeError"
  /\ pc' = IF example_question = <<>> THEN "input" ELSE "raised"
  /\ gen' = [gen EXCEPT !.started = TRUE]
  /\ UNCHANGED <<otherVars, input_size, sources, example_question, context, question,
                 question_tokens, context_tokens, context_tokens_start_end,
                 window, result, span, results, answer, printed_error, emitted,
                 infer_calls, asked, answered>>

\* The for statement resumes the generator; on the first resume the
\* generator checks the question length and raises.
RaiseTooLong ==
  /\ pc = "next"
  /\ ~gen.started
  /\ TooLong(ContextLen(Len(question_tokens)))
  /\ error' = "RuntimeError"
  /\ pc' = "raised"
  /\ gen' = [gen EXCEPT !.started = TRUE]
  /\ UNCHANGED <<otherVars, input_size, sources, example_question, context, question,
                 question_tokens, context_tokens, context_tokens_start_end,
                 window, result, span, results, answer, printed_error, emitted,
                 infer_calls, asked, answered>>

\* A loop that builds the next window without running the one just built.
YieldWindowEager ==
  /\ pc = "next"
  /\ gen.started \/ ~TooLong(ContextLen(Len(question_tokens)))
  /\ LET context_len == ContextLen(Len(question_tokens))
     IN  /\ gen.start < RangeStop(Len(context_tokens), context_len)
         /\ \E w \in {MakeWindow(question_tokens, context_tokens, gen.start)} :
              /\ window' = <<w>>
              /\ emitted' = Append(emitted, [start |-> w.start, size |-> SliceSize(w)])
         /\ gen' = [started |-> TRUE, start |-> gen.start + RangeStep(context_len)]
  /\ pc' = "next"
  /\ UNCHANGED <<otherVars, input_size, sources, example_question, context, question,
                 question_tokens, context_tokens, context_tokens_start_end,
                 result, span, results, answer, error, printed_error,
                 infer_calls, asked, answered>>

\* A loop body that builds input_ids in the caller's question_tokens list
\* (insert and extend in place) instead of a new list.
YieldWindowInPlace ==
  /\ pc = "next"
  /\ gen.started \/ ~TooLong(ContextLen(Len(question_tokens)))
  /\ LET context_len == ContextLen(Len(question_tokens))
     IN  /\ gen.start < RangeStop(Len(context_tokens), context_len)
         /\ \E w \in {MakeWindow(question_tokens, context_tokens, gen.start)} :
              /\ window' = <<w>>
              /\ emitted' = Append(emitted, [start |-> w.start, size |-> SliceSize(w)])
              /\ question_tokens' = SubSeq(w.input_ids, 1, input_size - w.pad_number)
         /\ gen' = [started |-> TRUE, start |-> gen.start + RangeStep(context_len)]
  /\ pc' = "infer"
  /\ UNCHANGED <<otherVars, input_size, sources, example_question, context, question,
                 context_tokens, context_tokens_start_end,
                 result, span, results, answer, error, printed_error,
                 infer_calls, asked, answered>>

\* The generator yields the next window.
YieldWindow ==
  /\ pc = "next"
  /\ gen.started \/ ~TooLong(ContextLen(Len(question_tokens)))
  /\ LET context_len == ContextLen(Len(question_tokens))
     IN  /\ gen.start < RangeStop(Len(context_tokens), context_len)
         /\ \E w \in {MakeWindow(question_tokens, context_tokens, gen.start)} :
              /\ window' = <<w>>
              /\ emitted' = Append(emitted, [start |-> w.start, size |-> SliceSize(w)])
         /\ gen' = [started |-> TRUE, start |-> gen.start + RangeStep(context_len)]
  /\ pc' = "infer"
  /\ UNCHANGED <<otherVars, input_size, sources, example_question, context, question,
                 question_tokens, context_tokens, context_tokens_start_end,
                 result, span, results, answer, error, printed_error,
                 infer_calls, asked, answered>>

\* result = compiled_model(network_input) returns logits out of outs, then
\* postprocess(...) and results.append(score_start_end); the argmax of an
\* empty matrix raises ValueError.
ProcessWith(outs) ==
  /\ pc = "infer"
  /\ \E out \in outs :
       LET context_start_idx == ContextStartIdx(question_tokens)
           context_end_idx == ContextEndIdx(window[1].pad_number)
       IN  /\ result' = <<out>>
           /\ IF context_end_idx - context_start_idx = 0
              THEN /\ error' = "ValueError"
                   /\ pc' = "raised"
                   /\ UNCHANGED <<span, results>>
              ELSE /\ \E best \in {find_best_answer_window(
                                     get_score(out.output_s), get_score(out.output_e),
                                     context_start_idx, context_end_idx)} :
                        /\ span' = <<best>>
                        /\ results' = Append(results,
                             ToCharRange(best, context_tokens_start_end, window[1].start))
                   /\ pc' = "next"
                   /\ error' = error
  /\ infer_calls' = infer_calls + 1
  /\ UNCHANGED <<otherVars, input_size, sources, example_question, context, question,
                 question_tokens, context_tokens, context_tokens_start_end, gen,
                 window, answer, printed_error, emitted, asked, answered>>

\* A loop that swallows the failure and goes on with the next window.
InferFailsSkipsWindow ==
  /\ pc = "infer"
  /\ infer_calls' = infer_calls + 1
  /\ error' = "InferenceError"
  /\ pc' = "next"
  /\ UNCHANGED <<otherVars, input_size, sources, example_question, context, question,
                 question_tokens, context_tokens, context_tokens_start_end, gen,
                 window, result, span, results, answer, printed_error, emitted,
                 asked, answered>>

\* The loop body on logits whose exponentials are all finite.
ProcessWindow == ProcessWith(EngineOutputs(question_tokens))

\* The loop body on any logits, those that overflow np.exp included.
ProcessWindowAnyLogits == ProcessWith(EngineOutputsAnyLogits(question_tokens))

\* compiled_model(network_input) raises.
InferFails ==
  /\ pc = "infer"
  /\ infer_calls' = infer_calls + 1
  /\ error' = "InferenceError"
  /\ pc' = "raised"
  /\ UNCHANGED <<otherVars, input_size, sources, example_question, context, question,
                 question_tokens, context_tokens, context_tokens_start_end, gen,
                 window, result, span, results, answer, printed_error, emitted,
                 asked, answered>>

\* The range is exhausted, the generator returns and the loop ends;
\* answer = max(results, ...); return context[answer[1]:answer[2]], answer[0];
\* the caller prints the answer and goes on.
Aggregate ==
  /\ pc = "next"
  /\ gen.started \/ ~TooLong(ContextLen(Len(question_tokens)))
  /\ gen.start >= RangeStop(Len(context_tokens), ContextLen(Len(question_tokens)))
  /\ LET best == MaxByScore(results)
     IN  answer' = <<[text      |-> Slice(context, best.max_start, best.max_end),
                      score     |-> best.score,
                      max_start |-> best.max_start,
                      max_end   |-> best.max_end]>>
  /\ gen' = [gen EXCEPT !.started = TRUE]
  /\ answered' = answered + 1
  /\ pc' = IF example_question # <<>> THEN "done" ELSE "input"
  /\ UNCHANGED <<otherVars, input_size, sources, example_question, context, question,
                 question_tokens, context_tokens, context_tokens_start_end,
                 window, result, span, results, error, printed_error, emitted,
                 infer_calls, asked>>

Next ==
  \/ RunStart
  \/ ReadInput
  \/ Tokenize
  \/ RaiseTooLong
  \/ YieldWindow
  \/ ProcessWindow
  \/ InferFails
  \/ Aggregate

Spec == Init /\ [][Next]_vars

\* -------------------------------------------- prepare_input on its own
\* prepare_input(question_tokens, context_tokens) driven by a plain for
\* loop that drops each window: the generator alone, on longer contexts.
InitWindows ==
  /\ OtherIdle
  /\ input_size = InputSize
  /\ sources = <<>>
  /\ example_question = <<>>
  /\ pc = "next"
  /\ \E n \in 0..MaxPrepTokens :
       /\ context = PunctText(n)
       /\ context_tokens = [i \in 1..n |-> VocabId(<<",">>)]
       /\ context_tokens_start_end = [i \in 1..n |-> <<i - 1, i>>]
  /\ \E k \in 0..MaxQuestionTokens :
       /\ question = WordsText(0, k)
       /\ question_tokens = [i \in 1..k |-> VocabId(<<"a", "a">>)]
  /\ gen = [started |-> FALSE, start |-> 0]
  /\ window = <<>>
  /\ result = <<>>
  /\ span = <<>>
  /\ results = <<>>
  /\ answer = <<>>
  /\ error = "none"
  /\ printed_error = FALSE
  /\ emitted = <<>>
  /\ infer_calls = 0
  /\ asked = 0
  /\ answered = 0

\* The loop body is done; the for statement asks for the next window.
TakeWindow ==
  /\ pc = "infer"
  /\ pc' = "next"
  /\ UNCHANGED <<otherVars, input_size, sources, example_question, context, question,
                 question_tokens, context_tokens, context_tokens_start_end, gen,
                 window, result, span, results, answer, error, printed_error,
                 emitted, infer_calls, asked, answered>>

\* The range is exhausted: the generator returns and the loop ends.
StopWindows ==
  /\ pc = "next"
  /\ gen.started \/ ~TooLong(ContextLen(Len(question_tokens)))
  /\ gen.start >= RangeStop(Len(context_tokens), ContextLen(Len(question_tokens)))
  /\ gen' = [gen EXCEPT !.started = TRUE]
  /\ pc' = "stop"
  /\ UNCHANGED <<otherVars, input_size, sources, example_question, context, question,
                 question_tokens, context_tokens, context_tokens_start_end,
                 window, result, span, results, answer, error, printed_error,
                 emitted, infer_calls, asked, answered>>

NextWindows ==
  \/ RaiseTooLong
  \/ YieldWindow
  \/ TakeWindow
  \/ StopWindows

SpecWindows == InitWindows /\ [][NextWindows]_vars

\* The same loop when it is not left hanging: every step of the generator
\* and every loop body that has started comes to its end.
SpecWindowsFair == SpecWindows /\ WF_vars(NextWindows)

\* ------------------------------------------------ load_context on its own
\* The sources tried: short texts, with or without a scheme and a network
\* location.
SourceTexts == {<<>>, <<"a">>, <<"b", "c">>}
Sources == [scheme : BOOLEAN, netloc : BOOLEAN, text : SourceTexts]

RECURSIVE SeqsUpTo(_, _)
SeqsUpTo(S, k) ==
  IF k = 0 THEN {<<>>}
  ELSE LET shorter == SeqsUpTo(S, k - 1)
       IN  shorter \cup {Append(q, x) : q \in shorter, x \in S}

\* run_question_answering(sources) entered with up to MaxSources sources of
\* any kind and no example question.
InitLoad ==
  /\ OtherIdle
  /\ input_size = InputSize
  /\ sources \in SeqsUpTo(Sources, MaxSources)
  /\ example_question = <<>>
  /\ pc = "rqa"
  /\ context = <<>>
  /\ question = <<>>
  /\ question_tokens = <<>>
  /\ context_tokens = <<>>
  /\ context_tokens_start_end = <<>>
  /\ gen = [started |-> FALSE, start |-> 0]
  /\ window = <<>>
  /\ result = <<>>
  /\ span = <<>>
  /\ results = <<>>
  /\ answer = <<>>
  /\ error = "none"
  /\ printed_error = FALSE
  /\ emitted = <<>>
  /\ infer_calls = 0
  /\ asked = 0
  /\ answered = 0

\* context = load_context(sources) and nothing after it.
SpecLoad == InitLoad /\ [][RunStart]_vars

\* ------------------------------------- get_best_answer on any logits
\* get_best_answer(example_question, context) from its loop on, on short
\* contexts (one window) and logits of any height.
InitScore ==
  /\ OtherIdle
  /\ input_size = InputSize
  /\ sources = <<>>
  /\ pc = "next"
  /\ \E n \in 1..MaxScoreTokens :
       /\ context = PunctText(n)
       /\ context_tokens = [i \in 1..n |-> VocabId(<<",">>)]
       /\ context_tokens_start_end = [i \in 1..n |-> <<i - 1, i>>]
  /\ \E k \in 1..MaxQuestionTokens :
       /\ question = WordsText(0, k)
       /\ example_question = <<WordsText(0, k)>>
       /\ question_tokens = [i \in 1..k |-> VocabId(<<"a", "a">>)]
  /\ gen = [started |-> FALSE, start |-> 0]
  /\ window = <<>>
  /\ result = <<>>
  /\ span = <<>>
  /\ results = <<>>
  /\ answer = <<>>
  /\ error = "none"
  /\ printed_error = FALSE
  /\ emitted = <<>>
  /\ infer_calls = 0
  /\ asked = 0
  /\ answered = 0

NextScore ==
  \/ RaiseTooLong
  \/ YieldWindow
  \/ ProcessWindowAnyLogits
  \/ Aggregate

SpecScore == InitScore /\ [][NextScore]_vars

\* =================================================== the ConvE notebook
\* The two evaluation cells of 219-knowledge-graphs-conve: the PyTorch loop
\* and the OpenVINO loop over data.test_triples_list.  Both cells run in
\* the same kernel, so the names they bind (t, gt, pred) are shared.
TOP_K == 2

MaxSamples == 2

\* Entity ids of the data set explored, and the source entities of samples.
Entities == {0, 1, 2}
SourceEntities == {0, 1}
Relations == {0}

\* sorted(xs): ascending, by insertion.
RECURSIVE InsertSorted(_, _)
InsertSorted(x, s) ==
  IF s = <<>> THEN <<x>>
  ELSE IF x <= Head(s) THEN <<x>> \o s
  ELSE <<Head(s)>> \o InsertSorted(x, Tail(s))

RECURSIVE sorted(_)
sorted(xs) == IF xs = <<>> THEN <<>> ELSE InsertSorted(Head(xs), sorted(Tail(xs)))

\* The ids of a top-K set in the order the framework happens to return them.
AsList(S) == CHOOSE s \in [1..Cardinality(S) -> S] : \A x \in S : \E k \in DOMAIN s : s[k] = x

\* torch.topk(logits, TOP_K, 1) / np.argpartition(result[0], -TOP_K)[-TOP_K:]:
\* the ids of the TOP_K largest scores; the networks are opaque, so any set
\* of TOP_K entity ids can come out.
TopKSets == {S \in SUBSET Entities : Cardinality(S) = TOP_K}

\* t_ents of convert_triples: the target ids of one line of the test file.
TargetLists ==
  {s \in UNION {[1..k -> Entities] : k \in 1..TOP_K} :
     \A a, b \in DOMAIN s : a # b => s[a] # s[b]}

\* hrt_list of convert_triples: [h, r, t_ents].
TestSamples == {<<h, r, ts>> : h \in SourceEntities, r \in Relations, ts \in TargetLists}

\* accuracy_score(gt, pred) * len(gt): the number of positions at which the
\* two arrays agree.  sklearn raises ValueError when the lengths differ.
SameLength(y_true, y_pred) == Len(y_true) = Len(y_pred)
Matches(y_true, y_pred) == Cardinality({k \in DOMAIN y_true : y_true[k] = y_pred[k]})

\* Every question-answering variable at rest: that notebook is not running.
QAIdle ==
  /\ input_size = InputSize
  /\ sources = <<>>
  /\ example_question = <<>>
  /\ pc = "idle"
  /\ context = <<>>
  /\ question = <<>>
  /\ question_tokens = <<>>
  /\ context_tokens = <<>>
  /\ context_tokens_start_end = <<>>
  /\ gen = [started |-> FALSE, start |-> 0]
  /\ window = <<>>
  /\ result = <<>>
  /\ span = <<>>
  /\ results = <<>>
  /\ answer = <<>>
  /\ error = "none"
  /\ printed_error = FALSE
  /\ emitted = <<>>
  /\ infer_calls = 0
  /\ asked = 0
  /\ answered = 0

\* The kernel when the PyTorch evaluation cell starts: the test triples are
\* loaded, both networks are fixed functions of (h, r), pt_acc = 0.0.
InitConvE ==
  /\ QAIdle
  /\ VideoIdle
  /\ DetectIdle
  /\ \E n \in 1..MaxSamples :
       /\ triples_list \in [1..n -> TestSamples]
       /\ pt_model \in [1..n -> TopKSets]
       /\ ov_model \in [1..n -> TopKSets]
  /\ \A a, b \in DOMAIN triples_list :
       (triples_list[a][1] = triples_list[b][1] /\ triples_list[a][2] = triples_list[b][2])
         => (pt_model[a] = pt_model[b] /\ ov_model[a] = ov_model[b])
  /\ conve_pc = "pt"
  /\ loop_i = 0
  /\ target_t = <<>>
  /\ gt = <<>>
  /\ pred = <<>>
  /\ pt_acc = 0
  /\ ov_acc = 0

\* One iteration of the PyTorch loop: h, r, t = test_sample;
\* gt = sorted(t); pred = sorted(topk); pt_acc += accuracy_score(gt, pred).
PyTorchStep ==
  /\ conve_pc = "pt"
  /\ loop_i < Len(triples_list)
  /\ \E test_sample \in {triples_list[loop_i + 1]} :
     \E new_gt \in {sorted(test_sample[3])} :
     \E new_pred \in {sorted(AsList(pt_model[loop_i + 1]))} :
       /\ target_t' = test_sample[3]
       /\ gt' = <<new_gt>>
       /\ pred' = <<new_pred>>
       /\ IF SameLength(new_gt, new_pred)
          THEN /\ pt_acc' = pt_acc + Matches(new_gt, new_pred)
               /\ loop_i' = loop_i + 1
               /\ conve_pc' = "pt"
          ELSE /\ conve_pc' = "raised"
               /\ UNCHANGED <<pt_acc, loop_i>>
  /\ UNCHANGED <<qaVars, videoVars, detectVars, triples_list, pt_model, ov_model, ov_acc>>

\* range(num_test_samples) is exhausted: the mean accuracy is printed, the
\* model is exported and compiled, and the OpenVINO cell sets ov_acc = 0.0.
PyTorchDone ==
  /\ conve_pc = "pt"
  /\ loop_i = Len(triples_list)
  /\ conve_pc' = "ov"
  /\ loop_i' = 0
  /\ ov_acc' = 0
  /\ UNCHANGED <<qaVars, videoVars, detectVars, triples_list, pt_model, ov_model, target_t, gt, pred, pt_acc>>

\* gt = np.array(sorted(t)): t is the name the PyTorch loop bound last.
OpenVINOGt(target) == sorted(target_t)

\* One iteration of the OpenVINO loop: source, relation, target =
\* test_sample; gt = sorted(t); pred = sorted(top_k_idxs);
\* ov_acc += accuracy_score(gt, pred).
OpenVINOStep ==
  /\ conve_pc = "ov"
  /\ loop_i < Len(triples_list)
  /\ \E test_sample \in {triples_list[loop_i + 1]} :
     \E new_gt \in {OpenVINOGt(test_sample[3])} :
     \E new_pred \in {sorted(AsList(ov_model[loop_i + 1]))} :
       /\ gt' = <<new_gt>>
       /\ pred' = <<new_pred>>
       /\ IF SameLength(new_gt, new_pred)
          THEN /\ ov_acc' = ov_acc + Matches(new_gt, new_pred)
               /\ loop_i' = loop_i + 1
               /\ conve_pc' = "ov"
          ELSE /\ conve_pc' = "raised"
               /\ UNCHANGED <<ov_acc, loop_i>>
  /\ UNCHANGED <<qaVars, videoVars, detectVars, triples_list, pt_model, ov_model, target_t, pt_acc>>

\* The OpenVINO loop is exhausted and its mean accuracy is printed.
OpenVINODone ==
  /\ conve_pc = "ov"
  /\ loop_i = Len(triples_list)
  /\ conve_pc' = "done"
  /\ UNCHANGED <<qaVars, videoVars, detectVars, triples_list, pt_model, ov_model, loop_i, target_t,
                 gt, pred, pt_acc, ov_acc>>

NextConvE ==
  \/ PyTorchStep
  \/ PyTorchDone
  \/ OpenVINOStep
  \/ OpenVINODone

SpecConvE == InitConvE /\ [][NextConvE]_vars

\* ================================================ the monodepth notebook
\* The cell "Do Inference on a Video and Create Monodepth Video": a while
\* loop inside try / except KeyboardInterrupt / finally.
MaxFrames == 5
MaxAdvance == 2
MaxHalfSeconds == 3

\* The frame rates explored: 1, 1.5 and 2 frames per second, in halves.
FpsValues == {2, 3, 4}

\* int(NUM_SECONDS * input_fps): both factors are in halves, the product is
\* in quarters, and int() drops the fraction.
IntOfProduct(half_a, half_b) == (half_a * half_b) \div 4

\* total_frames = cap.get(CAP_PROP_FRAME_COUNT) if num_frames == 0 else num_frames
TotalFrames(n, count) == IF n = 0 THEN count ELSE n

\* The cell has run up to "try:": the settings are any the earlier cells
\* accept (they read one frame and divide by ADVANCE_FRAMES), the capture
\* and the writer are open, the counters are 0.
InitVideo ==
  /\ QAIdle
  /\ ConvEIdle
  /\ DetectIdle
  /\ NUM_SECONDS \in 0..MaxHalfSeconds
  /\ ADVANCE_FRAMES \in 1..MaxAdvance
  /\ input_fps \in FpsValues
  /\ frame_count \in 1..MaxFrames
  /\ readable_frames \in 1..frame_count
  /\ video_pc = "loop"
  /\ cap_opened = TRUE
  /\ out_opened = TRUE
  /\ input_video_frame_nr = 0
  /\ num_frames = IntOfProduct(NUM_SECONDS, input_fps)
  /\ total_frames = TotalFrames(num_frames, frame_count)
  /\ total_inference_duration = 0
  /\ exit_by = "none"
  /\ processed_frames = <<>>
  /\ summary = <<>>
  /\ inferred = <<>>
  /\ written = <<>>

\* ret of cap.read() at the position the loop has set.
ReadOk == input_video_frame_nr < readable_frames

\* The iteration gets past both break tests.
FrameIsDue == ReadOk /\ input_video_frame_nr < total_frames

\* if not ret: cap.release(); break
VideoEnds ==
  /\ video_pc = "loop"
  /\ cap_opened
  /\ ~ReadOk
  /\ cap_opened' = FALSE
  /\ exit_by' = "end"
  /\ video_pc' = "finally"
  /\ UNCHANGED <<qaVars, conveVars, detectVars, NUM_SECONDS, ADVANCE_FRAMES, input_fps,
                 frame_count, readable_frames, out_opened,
                 input_video_frame_nr, num_frames, total_frames,
                 total_inference_duration, processed_frames, summary,
                 inferred, written>>

\* if input_video_frame_nr >= total_frames: break
LimitReached ==
  /\ video_pc = "loop"
  /\ cap_opened
  /\ ReadOk
  /\ input_video_frame_nr >= total_frames
  /\ exit_by' = "limit"
  /\ video_pc' = "finally"
  /\ UNCHANGED <<qaVars, conveVars, detectVars, NUM_SECONDS, ADVANCE_FRAMES, input_fps,
                 frame_count, readable_frames, cap_opened, out_opened,
                 input_video_frame_nr, num_frames, total_frames,
                 total_inference_duration, processed_frames, summary,
                 inferred, written>>

\* A whole iteration: inference on the frame, out_video.write, the frame
\* number advanced and cap.set(1, input_video_frame_nr).
ProcessFrame ==
  /\ video_pc = "loop"
  /\ cap_opened
  /\ FrameIsDue
  /\ inferred' = Append(inferred, input_video_frame_nr)
  /\ total_inference_duration' = total_inference_duration + 1
  /\ written' = Append(written, input_video_frame_nr)
  /\ input_video_frame_nr' = input_video_frame_nr + ADVANCE_FRAMES
  /\ UNCHANGED <<qaVars, conveVars, detectVars, NUM_SECONDS, ADVANCE_FRAMES, input_fps,
                 frame_count, readable_frames, video_pc, cap_opened,
                 out_opened, num_frames, total_frames, exit_by,
                 processed_frames, summary>>

\* The points of an iteration at which an exception can leave it: while the
\* frame is read, after the inference, after the frame is written.
IterationPoints == {"read", "inferred", "written"}

\* The iteration is cut at the point: what it has done by then is kept,
\* and control goes to where the exception takes it.
CutAt(point, to) ==
  /\ video_pc = "loop"
  /\ cap_opened
  /\ point # "read" => FrameIsDue
  /\ inferred' = IF point = "read" THEN inferred
                 ELSE Append(inferred, input_video_frame_nr)
  /\ total_inference_duration' =
       IF point = "read" THEN total_inference_duration
       ELSE total_inference_duration + 1
  /\ written' = IF point = "written" THEN Append(written, input_video_frame_nr)
                ELSE written
  /\ video_pc' = to
  /\ UNCHANGED <<qaVars, conveVars, detectVars, NUM_SECONDS, ADVANCE_FRAMES, input_fps,
                 frame_count, readable_frames, cap_opened, out_opened,
                 input_video_frame_nr, num_frames, total_frames,
                 processed_frames, summary>>

\* except KeyboardInterrupt: print("Processing interrupted.")
KeyboardInterrupt ==
  \E point \in IterationPoints : CutAt(point, "finally") /\ exit_by' = "interrupt"

\* The exception leaves the cell at once, as if the try had no finally.
OtherErrorNoFinally ==
  \E point \in IterationPoints : CutAt(point, "raised") /\ exit_by' = "error"

\* Any other exception raised in the try block (the resize, the network,
\* the writer): no except clause takes it, the finally block runs first.
OtherError ==
  \E point \in IterationPoints : CutAt(point, "finally") /\ exit_by' = "error"

\* The first half of the finally block: processed_frames is computed,
\* out_video.release(), cap.release().
ReleaseResources ==
  /\ video_pc = "finally"
  /\ processed_frames' = <<num_frames \div ADVANCE_FRAMES>>
  /\ out_opened' = FALSE
  /\ cap_opened' = FALSE
  /\ video_pc' = "summary"
  /\ UNCHANGED <<qaVars, conveVars, detectVars, NUM_SECONDS, ADVANCE_FRAMES, input_fps,
                 frame_count, readable_frames, input_video_frame_nr,
                 num_frames, total_frames, total_inference_duration, exit_by,
                 summary, inferred, written>>

\* The second half: the summary is printed, unless
\* processed_frames/total_inference_duration divides by the 0 the duration
\* started at; then an exception that was on its way out goes on.
PrintSummary ==
  /\ video_pc = "summary"
  /\ IF total_inference_duration = 0
     THEN /\ video_pc' = "raised"
          /\ UNCHANGED summary
     ELSE /\ summary' = processed_frames
          /\ video_pc' = IF exit_by = "error" THEN "raised" ELSE "done"
  /\ UNCHANGED <<qaVars, conveVars, detectVars, NUM_SECONDS, ADVANCE_FRAMES, input_fps,
                 frame_count, readable_frames, cap_opened, out_opened,
                 input_video_frame_nr, num_frames, total_frames,
                 total_inference_duration, exit_by, processed_frames,
                 inferred, written>>

NextVideo ==
  \/ VideoEnds
  \/ LimitReached
  \/ ProcessFrame
  \/ KeyboardInterrupt
  \/ OtherError
  \/ ReleaseResources
  \/ PrintSummary

SpecVideo == InitVideo /\ [][NextVideo]_vars

\* ================================================== the vehicle notebook
\* crop_images and convert_result_to_image.  Confidences and the threshold
\* are in tenths, corner positions in quarters of the image side, image
\* shapes are <<height, width>> in pixels.
DefaultThreshold == 6

MaxBoxes == 2

\* int(corner_position * ratio * resized) with ratio = real / resized.
ScaleCorner(corner, real, resized) == (corner * real * resized) \div (4 * resized)

\* One row of boxes[:, 2:] turned into [x_min, y_min, x_max, y_max]: the y
\* corners (odd idx) are kept at 10 or lower down.
CarPosition(box, real, resized) ==
  <<ScaleCorner(box[2], real[2], resized[2]),
    Max(ScaleCorner(box[3], real[1], resized[1]), 10),
    ScaleCorner(box[4], real[2], resized[2]),
    Max(ScaleCorner(box[5], real[1], resized[1]), 10)>>

\* crop_images(bgr_image, resized_image, boxes, threshold): the positions
\* of the boxes with conf > threshold, in the order of the boxes.
crop_images(bgr, resized, bxs, thr) ==
  LET Confident(box) == box[1] > thr
      kept == SelectSeq(bxs, Confident)
  IN  [k \in 1..Len(kept) |-> CarPosition(kept[k], bgr, resized)]

\* The call as written in convert_result_to_image:
\* crop_images(image_de, resized_image, boxes).
CarPositions(bgr, resized, bxs, thr) ==
  crop_images(image_de, resized, bxs, DefaultThreshold)

\* The detections explored: confidences 0.5, 0.6 and 0.7 on two boxes.
Confidences == {5, 6, 7}
BoxCorners == {<<0, 0, 2, 2>>, <<1, 1, 4, 3>>}
DetectionBoxes == {<<c>> \o b : c \in Confidences, b \in BoxCorners}
ImageShapes == {<<20, 40>>, <<60, 80>>}
Thresholds == {5, DefaultThreshold, 7}

\* convert_result_to_image is about to be called: image_de has been read,
\* the arguments are any image, its resized copy, any boxes, any threshold.
InitDetect ==
  /\ QAIdle
  /\ ConvEIdle
  /\ VideoIdle
  /\ image_de \in ImageShapes
  /\ call_bgr_image \in ImageShapes
  /\ call_resized_image = <<8, 8>>
  /\ \E n \in 0..MaxBoxes : call_boxes \in [1..n -> DetectionBoxes]
  /\ call_threshold \in Thresholds
  /\ detect_pc = "call"
  /\ rgb_image = <<>>

\* convert_result_to_image(compiled_model_re, bgr_image, resized_image,
\* boxes, threshold): a rectangle and a label for every car position.
convert_result_to_image ==
  /\ detect_pc = "call"
  /\ rgb_image' = CarPositions(call_bgr_image, call_resized_image, call_boxes,
                               call_threshold)
  /\ detect_pc' = "done"
  /\ UNCHANGED <<qaVars, conveVars, videoVars, image_de, call_bgr_image,
                 call_resized_image, call_boxes, call_threshold>>

SpecDetect == InitDetect /\ [][convert_result_to_image]_vars

\* ------------------------------------------------------------ the claims
\* c = input_size - q - 3 and n of the question being answered.
CtxCapacity == input_size - Len(question_tokens) - 3
CtxTokens == Len(context_tokens)

\* prepare_input has emitted all its windows.
AllWindowsEmitted == pc = "stop" \/ (pc \in {"done", "input"} /\ answer # <<>>)

\* Window k (from 1) holds context token i (0-based) in its slice.
InWindow(k, i) == emitted[k].start <= i /\ i < emitted[k].start + emitted[k].size

\* C1 (as claimed): once prepare_input has emitted all its windows for a
\* question with c >= 16 and a context of n >= 1 tokens, every context token
\* index 0..n-1 lies in the context slice of at least one emitted window.
C1_EveryTokenCovered ==
  (AllWindowsEmitted /\ CtxCapacity >= 16 /\ CtxTokens >= 1)
    => \A i \in 0..(CtxTokens - 1) : \E k \in 1..Len(emitted) : InWindow(k, i)

\* C2 (as claimed): once prepare_input has emitted all its windows, every
\* contiguous span [a, b] of context tokens of length at most c / 2 lies
\* whole in the context slice of at least one emitted window.
C2_ShortSpanInOneWindow ==
  (AllWindowsEmitted /\ CtxCapacity >= 16)
    => \A a \in 0..(CtxTokens - 1) : \A b \in a..(CtxTokens - 1) :
         (2 * (b - a + 1) <= CtxCapacity)
           => \E k \in 1..Len(emitted) : InWindow(k, a) /\ InWindow(k, b)

\* The number of context tokens the slices of windows k and k + 1 share.
Overlap(k) ==
  Cardinality({i \in 0..(CtxTokens - 1) : InWindow(k, i) /\ InWindow(k + 1, i)})

\* C3 (as claimed): any two consecutively emitted windows share exactly
\* c // 2 context tokens, for even and for odd c.
C3_OverlapIsHalfRoundedDown ==
  \A k \in 1..(Len(emitted) - 1) : Overlap(k) = CtxCapacity \div 2

\* C3 (amended): any two consecutively emitted windows share exactly
\* c - c // 2 context tokens: c // 2 for even c, c // 2 + 1 for odd c.
C3_OverlapIsCapacityMinusStep ==
  \A k \in 1..(Len(emitted) - 1) : Overlap(k) = CtxCapacity - (CtxCapacity \div 2)

\* C3 witness: three windows were emitted for an odd capacity.
C3_Witness == Len(emitted) >= 3 /\ CtxCapacity % 2 = 1 /\ pc = "stop"

\* A question has gone through the length check of prepare_input.
LengthChecked == gen.started

\* C4: prepare_input raises the input-too-long error exactly when
\* input_size - q - 3 < 16, and it raises before any window is emitted and
\* before any inference call; when input_size - q - 3 >= 16 it does not
\* raise and the first resume emits a window.
C4_TooLongExactlyBelow16 ==
  /\ (error = "RuntimeError")
       => (CtxCapacity < 16 /\ emitted = <<>> /\ infer_calls = 0 /\ answer = <<>>)
  /\ (LengthChecked /\ CtxCapacity < 16) => (error = "RuntimeError" /\ pc = "raised")
  /\ (LengthChecked /\ CtxCapacity >= 16) => (error # "RuntimeError" /\ Len(emitted) >= 1)

\* C4 witness: a question one token too long was refused.
C4_Witness == pc = "raised" /\ error = "RuntimeError" /\ CtxCapacity = 15

\* The loaded context has no token.
ContextHasNoToken == pc # "rqa" /\ TokenStarts(Lower(context)) = {}

\* A question was submitted in this run.
QuestionSubmitted == example_question # <<>> \/ asked > 0

\* C5 (as claimed): when the context yields no tokens, no window is built,
\* no inference call is made, no answer is returned and no other error is
\* raised; a run in which a question was submitted ends with the
\* empty-context error signalled.
C5_EmptyContextRefusedFirst ==
  ContextHasNoToken
    => /\ emitted = <<>>
       /\ infer_calls = 0
       /\ answer = <<>>
       /\ error = "none"
       /\ (pc \in {"done", "raised"} /\ QuestionSubmitted) => printed_error

\* The window the last candidate (and span) belongs to: its number of
\* context tokens and the context token index it starts at.
WindowTokens == emitted[Len(results)].size
WindowStart == emitted[Len(results)].start

\* C6: the span found in a window with a non-empty context region has
\* 0 <= start <= end < L and end - start <= 16.
C6_SpanShape ==
  (span # <<>>)
    => /\ WindowTokens >= 1
       /\ 0 <= span[1].max_s
       /\ span[1].max_s <= span[1].max_e
       /\ span[1].max_e < WindowTokens
       /\ span[1].max_e - span[1].max_s <= 16

\* The 0-based position of the peak of a logit vector with one peak.
PeakOf(logits) == (CHOOSE i \in 1..Len(logits) : logits[i] > 0) - 1

\* C6 witness: the end logits peak before the start logits do, both inside
\* the context region, and a span was selected.
C6_Witness ==
  /\ span # <<>>
  /\ pc = "next"
  /\ PeakOf(result[1].output_s) = ContextStartIdx(question_tokens) + 16
  /\ PeakOf(result[1].output_e) = ContextStartIdx(question_tokens)
  /\ WindowTokens >= 17

\* C7 (as claimed): the selected span holds at most 16 tokens, its start
\* and end tokens included.
C7_SpanAtMost16Tokens ==
  (span # <<>>) => (span[1].max_e - span[1].max_s + 1 <= 16)

\* start_score[i] * end_score[j] as a numerator, or 0 where the pair is
\* masked (window-local i, j; cs is the index of the first context token).
MaskedProduct(start_num, end_num, cs, i, j) ==
  IF j < i \/ j - i > 16 THEN 0
  ELSE start_num[cs + i + 1] * end_num[cs + j + 1]

\* The masked product m at the pair (i, j) does not beat the pair of sp:
\* it is smaller, or equal and not earlier in row-major order.
NotBefore(m, sp, i, j) ==
  \/ m < sp.max_score[1]
  \/ m = sp.max_score[1] /\ (i > sp.max_s \/ (i = sp.max_s /\ j >= sp.max_e))

\* The pair of sp is the first row-major maximum of the masked products
\* over 0..L-1, and the score of sp is the masked product there.
IsFirstMaximum(sp, start_score, end_score, cs, L) ==
  /\ sp.max_score[1] = MaskedProduct(start_score.num, end_score.num, cs, sp.max_s, sp.max_e)
  /\ sp.max_score[2] = start_score.den * end_score.den
  /\ \A i \in 0..(L - 1) : \A j \in 0..(L - 1) :
       NotBefore(MaskedProduct(start_score.num, end_score.num, cs, i, j), sp, i, j)

\* C8: when find_best_answer_window has returned, the pair it returned has the largest masked
\* score of the context region, is the first such pair in row-major order
\* (lowest start, then lowest end), and the returned score is the masked
\* score at that pair.
C8_FirstRowMajorMaximum ==
  (span # <<>> /\ pc = "next")
    => IsFirstMaximum(span[1], get_score(result[1].output_s),
                      get_score(result[1].output_e),
                      ContextStartIdx(question_tokens), WindowTokens)

\* Another pair in a later row, and another later in the same row, have
\* the score of sp.
HasTies(sp, start_num, end_num, cs, L) ==
  /\ \E i \in (sp.max_s + 1)..(L - 1) : \E j \in 0..(L - 1) :
       MaskedProduct(start_num, end_num, cs, i, j) = sp.max_score[1]
  /\ \E j \in (sp.max_e + 1)..(L - 1) :
       MaskedProduct(start_num, end_num, cs, sp.max_s, j) = sp.max_score[1]

\* C8 witness: a span was selected where a pair in a later row and a pair
\* later in the same row have the same largest score.
C8_Witness ==
  /\ span # <<>>
  /\ pc = "next"
  /\ span[1].max_score[1] > 1
  /\ HasTies(span[1], get_score(result[1].output_s).num,
             get_score(result[1].output_e).num,
             ContextStartIdx(question_tokens), WindowTokens)

\* Scores a and b, kept as <<numerator, denominator>>, compared as fractions.
ScoreLess(a, b) == a[1] * b[2] < b[1] * a[2]
ScoreEqual(a, b) == a[1] * b[2] = b[1] * a[2]

\* The answer is the candidate of window k.
AnswerIsCandidate(k) ==
  /\ answer[1].score = results[k].score
  /\ answer[1].max_start = results[k].max_start
  /\ answer[1].max_end = results[k].max_end

\* C9: the answer get_best_answer returns is the candidate of the first
\* window, in emission order, whose score is the maximum over all windows.
C9_FirstMaximumCandidate ==
  (answer # <<>>)
    => \E k \in 1..Len(results) :
         /\ AnswerIsCandidate(k)
         /\ \A j \in 1..Len(results) : ~ScoreLess(results[k].score, results[j].score)
         /\ \A j \in 1..(k - 1) : ScoreLess(results[j].score, results[k].score)

\* C9 witness: two windows with the same score and different character
\* ranges, and an answer was returned.
C9_Witness ==
  /\ answer # <<>>
  /\ Len(results) = 2
  /\ ScoreEqual(results[1].score, results[2].score)
  /\ results[1].max_start # results[2].max_start

\* C10: the candidate of a window that starts at context token w with local
\* span (ls, le) has the range [start offset of token w + ls, end offset of
\* token w + le), and the answer text is that character slice of the
\* original context.
C10_OffsetMapping ==
  /\ (span # <<>>)
       => /\ results[Len(results)].max_start =
               context_tokens_start_end[WindowStart + span[1].max_s + 1][1]
          /\ results[Len(results)].max_end =
               context_tokens_start_end[WindowStart + span[1].max_e + 1][2]
  /\ (answer # <<>>)
       => /\ \E k \in 1..Len(results) : AnswerIsCandidate(k)
          /\ answer[1].text = [i \in 1..(answer[1].max_end - answer[1].max_start) |->
                                 context[answer[1].max_start + i]]

\* C10 witness: the answer comes from the second window, which starts past
\* token 0, and spans several tokens.
C10_Witness ==
  /\ answer # <<>>
  /\ Len(results) = 2
  /\ WindowStart > 0
  /\ span[1].max_e > span[1].max_s
  /\ ScoreLess(results[1].score, results[2].score)
  /\ Len(answer[1].text) > 2

\* The window last yielded, the number of context tokens its slice must
\* hold (c of them, or what is left of the context from its start), and
\* the number of positions it fills before the padding.
LastWindow == window[1]
LastSliceLen == Min(CtxCapacity, CtxTokens - LastWindow.start)
LastFilled == Len(question_tokens) + 3 + LastSliceLen

\* C11: the input_ids of every yielded window has length input_size and is
\* [CLS], the question tokens, [SEP], the context slice, [SEP], then only
\* padding tokens; the number of padding tokens is input_size minus
\* (q + 3 + slice length) and is never negative.
C11_WindowLayout ==
  window # <<>> =>
    LET ids == LastWindow.input_ids
        q == Len(question_tokens)
    IN  /\ Len(ids) = input_size
        /\ ids[1] = cls_token
        /\ \A i \in 1..q : ids[1 + i] = question_tokens[i]
        /\ ids[q + 2] = sep_token
        /\ \A i \in 1..LastSliceLen : ids[q + 2 + i] = context_tokens[LastWindow.start + i]
        /\ ids[LastFilled] = sep_token
        /\ \A i \in (LastFilled + 1)..input_size : ids[i] = pad_token
        /\ LastWindow.pad_number = input_size - LastFilled
        /\ LastWindow.pad_number >= 0

\* C11 witness: a window whose slice is cut short by the end of the context
\* and so carries padding, behind a question of several tokens.
C11_Witness ==
  /\ window # <<>>
  /\ Len(question_tokens) >= 2
  /\ LastSliceLen >= 1
  /\ LastWindow.pad_number >= 2

\* C12: the attention mask has length input_size, is 1 at exactly the
\* positions before the padding and 0 at the padding; the segment mask has
\* length input_size, is 0 over [CLS], the question and the first [SEP], 1
\* over the context slice and the final [SEP], and 0 over the padding.
C12_Masks ==
  window # <<>> =>
    LET att == LastWindow.attention_mask
        seg == LastWindow.token_type_ids
        q == Len(question_tokens)
    IN  /\ Len(att) = input_size
        /\ Len(seg) = input_size
        /\ \A i \in 1..input_size : att[i] = (IF i <= LastFilled THEN 1 ELSE 0)
        /\ \A i \in 1..input_size :
             seg[i] = (IF i <= q + 2 THEN 0 ELSE IF i <= LastFilled THEN 1 ELSE 0)

\* C12 witness: a yielded window with a question, a slice and padding, so
\* that all three regions of both masks are there.
C12_Witness ==
  /\ window # <<>>
  /\ Len(question_tokens) >= 1
  /\ LastSliceLen >= 2
  /\ LastWindow.pad_number >= 1
  /\ LastWindow.attention_mask[input_size] = 0
  /\ LastWindow.token_type_ids[LastFilled] = 1

\* step = c // 2, and the bound max(1, n - c) the starts stay below.
Step == CtxCapacity \div 2
StartBound == IF CtxTokens - CtxCapacity >= 1 THEN CtxTokens - CtxCapacity ELSE 1

\* prepare_input has returned or raised.
WindowsOver == pc \in {"stop", "raised"}

\* C13: with c >= 16 and step = c // 2, the k-th window emitted starts at
\* (k - 1) * step, every start is below max(1, n - c) (so below n - c when
\* n - c >= 1), and when prepare_input has returned every multiple of step
\* below max(1, n - c) is the start of an emitted window.
C13_WindowStarts ==
  CtxCapacity >= MinContextLen =>
    /\ \A k \in 1..Len(emitted) :
         /\ emitted[k].start = (k - 1) * Step
         /\ emitted[k].start < StartBound
         /\ CtxTokens - CtxCapacity >= 1 => emitted[k].start < CtxTokens - CtxCapacity
    /\ pc = "stop" =>
         \A m \in 0..CtxTokens :
           m * Step < StartBound => m + 1 <= Len(emitted)

\* C13 witness: prepare_input returned after several windows on a context
\* where n - c is itself a multiple of step, the start that is left out.
C13_Witness ==
  /\ pc = "stop"
  /\ Len(emitted) >= 3
  /\ CtxTokens - CtxCapacity = Len(emitted) * Step

\* C14 (as claimed): when 1 <= n < c, prepare_input emits exactly one
\* window, which starts at context token 0 and holds all n context tokens.
C14_ShortContextOneWindow ==
  (1 <= CtxTokens /\ CtxTokens < CtxCapacity /\ WindowsOver) =>
    /\ Len(emitted) = 1
    /\ emitted[1].start = 0
    /\ emitted[1].size = CtxTokens

\* C14 (amended): when c >= 16 and 1 <= n < c, prepare_input does not raise
\* and emits exactly one window, which starts at context token 0 and holds
\* all n context tokens.
C14_ShortContextOneWindowIfRoom ==
  (CtxCapacity >= MinContextLen /\ 1 <= CtxTokens /\ CtxTokens < CtxCapacity) =>
    /\ pc # "raised"
    /\ Len(emitted) <= 1
    /\ pc = "stop" => Len(emitted) = 1
    /\ \A k \in 1..Len(emitted) :
         /\ emitted[k].start = 0
         /\ emitted[k].size = CtxTokens
         /\ \A i \in 1..CtxTokens :
              LastWindow.input_ids[Len(question_tokens) + 2 + i] = context_tokens[i]

\* C14 witness: prepare_input returned on a short context longer than one
\* step, so that a second start would fit below n.
C14_Witness ==
  /\ pc = "stop"
  /\ CtxTokens < CtxCapacity
  /\ CtxTokens > Step
  /\ Len(emitted) = 1

\* C15: within one query the windows are run one at a time in emission
\* order: while window k is at the engine the k - 1 windows before it have
\* each had their one inference call and their candidate appended, no
\* window is built while another is still unprocessed, and at every other
\* moment the inference calls made equal the windows emitted.
C15_OneWindowAtATime ==
  /\ pc = "infer" =>
       /\ Len(emitted) = Len(results) + 1
       /\ infer_calls = Len(results)
  /\ pc # "infer" => infer_calls = Len(emitted)
  /\ pc \notin {"infer", "raised"} => Len(results) = Len(emitted)
  /\ pc = "raised" => Len(results) \in {Len(emitted) - 1, Len(emitted)}
  /\ \A k \in 1..(Len(emitted) - 1) : emitted[k].start < emitted[k + 1].start

\* C15 witness: the second window is at the engine, the first one done.
C15_Witness ==
  /\ pc = "infer"
  /\ Len(emitted) = 2
  /\ Len(results) = 1
  /\ infer_calls = 1

\* C16: once the inference call has failed on a window the failure is the
\* outcome of the query: it is not caught, the failing call was the last
\* inference call (one call per window emitted so far, the failing one
\* included), nothing more is run, and no answer is returned: the query is
\* not among those answered.
C16_InferenceFailureIsFinal ==
  error = "InferenceError" =>
    /\ pc = "raised"
    /\ answer = <<>>
    /\ answered = (IF example_question # <<>> THEN 0 ELSE asked - 1)
    /\ infer_calls = Len(emitted)
    /\ Len(results) = Len(emitted) - 1
    /\ ~ENABLED Next

\* C16 witness: the call fails on the second window, after the first
\* window gave a candidate.
C16_Witness ==
  /\ error = "InferenceError"
  /\ Len(emitted) = 2
  /\ Len(results) = 1

\* ceil(max(1, n - c) / (c // 2))
WindowCount == (StartBound + Step - 1) \div Step

\* C17: for c >= 16 and n >= 1, with every loop body returning, the loop
\* over the windows comes to its end, without raising, and by then exactly
\* ceil(max(1, n - c) / (c // 2)) windows have been emitted, never more
\* on the way.
C17_TerminatesAfterWindowCount ==
  /\ [](CtxCapacity >= MinContextLen /\ CtxTokens >= 1 =>
          /\ Len(emitted) <= WindowCount
          /\ pc = "stop" => Len(emitted) = WindowCount
          /\ pc # "raised")
  /\ <>(pc = "stop" \/ CtxCapacity < MinContextLen \/ CtxTokens < 1)

\* C17 witness: the loop ended after several windows on a context where
\* max(1, n - c) is not a multiple of the step, so that the count is
\* rounded up.
C17_Witness ==
  /\ pc = "stop"
  /\ CtxTokens >= 1
  /\ Len(emitted) >= 4
  /\ StartBound % Step # 0

\* A query is being answered: get_best_answer has its token lists and is
\* in its loop over the windows.
QueryRunning == pc \in {"next", "infer"}

\* C18 (two runs on identical inputs give the same windows and answer)
\* relates two behaviours and has no formula over one behaviour here.

\* C19: no step of answering a query, to an answer or to an error, changes
\* input_size, the sources, the loaded context, or the question-token and
\* context-token lists (and the character ranges) that get_best_answer
\* handed to prepare_input and postprocess.  The vocabulary and the special
\* token ids are module-level names that no function assigns.
C19_SharedStateUnchanged ==
  [][/\ input_size' = input_size
     /\ sources' = sources
     /\ example_question' = example_question
     /\ pc # "rqa" => context' = context
     /\ QueryRunning =>
          /\ question_tokens' = question_tokens
          /\ context_tokens' = context_tokens
          /\ context_tokens_start_end' = context_tokens_start_end]_vars

\* C19 witness: a two-window query has been answered and the token lists
\* are still what the tokenizer gave for the question and the context.
C19_Witness ==
  /\ answer # <<>>
  /\ Len(emitted) = 2
  /\ Len(question_tokens) >= 2
  /\ input_size = InputSize
  /\ question_tokens = text_to_tokens(Lower(question)).ids
  /\ context_tokens = text_to_tokens(Lower(context)).ids

\* The sum of the numerators of the probabilities at the tensor positions
\* cs .. ce - 1 (0-based), the context region.
RegionMass(num, cs, ce) == SumSeq(SubSeq(num, cs + 1, ce))

\* The score sc = <<num, den>> of the pair sp against the probability
\* vectors it was taken from: it is the start probability at one position
\* of the context region times the end probability at one such position,
\* it is between 0 and 1, and it is at most the start mass of the context
\* region, the end mass of the context region, and their product.
ScoreInRange(sp, sc, start_score, end_score, cs, ce) ==
  /\ sc[2] > 0
  /\ \E i \in cs..(ce - 1) : \E j \in cs..(ce - 1) :
       /\ i = cs + sp.max_s
       /\ j = cs + sp.max_e
       /\ sc[1] * start_score.den * end_score.den
            = start_score.num[i + 1] * end_score.num[j + 1] * sc[2]
  /\ 0 <= sc[1]
  /\ sc[1] <= sc[2]
  /\ sc[1] * start_score.den <= RegionMass(start_score.num, cs, ce) * sc[2]
  /\ sc[1] * end_score.den <= RegionMass(end_score.num, cs, ce) * sc[2]
  /\ sc[1] * start_score.den * end_score.den
       <= RegionMass(start_score.num, cs, ce) * RegionMass(end_score.num, cs, ce) * sc[2]

\* C20 (as claimed): the score returned for a window is a number, the
\* product of one start probability and one end probability of that
\* window, lies in [0, 1], and is at most the probability mass inside the
\* context region; the score appended to the results is that same score.
\* (Probabilities are exact ratios here: finite logits are whole multiples
\* of ln 2.)
C20_ScoreRange ==
  (span # <<>> /\ pc = "next") =>
    /\ span[1].max_score[1] # NaN
    /\ ScoreInRange(span[1], span[1].max_score,
                    get_score(result[1].output_s), get_score(result[1].output_e),
                    ContextStartIdx(question_tokens),
                    ContextEndIdx(window[1].pad_number))
    /\ results[Len(results)].score = span[1].max_score

\* get_best_answer has been called for the question and has not returned.
Answering == pc \in {"gba", "next", "infer", "raised"}

LiteralIdx == {i \in 1..Len(sources) : ~(sources[i].scheme /\ sources[i].netloc)}
UrlIdx == {i \in 1..Len(sources) : sources[i].scheme /\ sources[i].netloc}

\* The place (from 1) of source i among the joined paragraphs: literals
\* first in their order, then the URLs in theirs.
PlaceOf(i) ==
  IF i \in LiteralIdx
  THEN Cardinality({j \in LiteralIdx : j <= i})
  ELSE Cardinality(LiteralIdx) + Cardinality({j \in UrlIdx : j <= i})

\* The source at place k, and the number of characters before its text in
\* the joined string (texts before it, each followed by a newline).
SourceAt(k) == CHOOSE i \in 1..Len(sources) : PlaceOf(i) = k
RECURSIVE CharsBefore(_)
CharsBefore(k) ==
  IF k <= 1 THEN 0 ELSE CharsBefore(k - 1) + Len(sources[SourceAt(k - 1)].text) + 1

\* C22: the loaded context is one string that holds, for every source, the
\* text of that source (the paragraph read there, for a URL) at its place:
\* literal sources first, in the order given, then the URL sources in the
\* order given, one newline between neighbours and nothing else.
C22_ContextIsJoinLiteralsThenUrls ==
  pc # "rqa" =>
    /\ Len(context) = IF sources = <<>> THEN 0
                      ELSE CharsBefore(Len(sources) + 1) - 1
    /\ \A i \in 1..Len(sources) :
         /\ \A c \in 1..Len(sources[i].text) :
              context[CharsBefore(PlaceOf(i)) + c] = sources[i].text[c]
         /\ PlaceOf(i) < Len(sources) =>
              context[CharsBefore(PlaceOf(i) + 1)] = "\n"

\* C22 witness: a URL given before two literal sources, a source with a
\* scheme and no network location among them, all with text.
C22_Witness ==
  /\ pc # "rqa"
  /\ Len(sources) = 3
  /\ 1 \in UrlIdx
  /\ 2 \in LiteralIdx
  /\ 3 \in LiteralIdx
  /\ sources[2].scheme
  /\ \A i \in 1..3 : sources[i].text # <<>>
  /\ sources[1].text # sources[2].text

\* C23: for every window yielded, the tensor positions cs .. ce - 1 with
\* cs = q + 2 and ce = input_size - padding - 1 hold the context tokens of
\* the window's slice, one for one and in order, there are as many of them
\* as the slice has tokens, and every other position is [CLS], a question
\* token, one of the two [SEP] or padding.
C23_SearchRegionIsSlice ==
  window # <<>> =>
    LET cs == ContextStartIdx(question_tokens)
        ce == ContextEndIdx(LastWindow.pad_number)
        ids == LastWindow.input_ids
        q == Len(question_tokens)
    IN  /\ ce - cs = LastSliceLen
        /\ \A p \in cs..(ce - 1) :
             /\ ids[p + 1] = context_tokens[LastWindow.start + (p - cs) + 1]
             /\ LastWindow.token_type_ids[p + 1] = 1
        /\ \A p \in (0..(input_size - 1)) \ (cs..(ce - 1)) :
             \/ p = 0 /\ ids[p + 1] = cls_token
             \/ 1 <= p /\ p <= q /\ ids[p + 1] = question_tokens[p]
             \/ p = q + 1 /\ ids[p + 1] = sep_token
             \/ p = ce /\ ids[p + 1] = sep_token
             \/ p > ce /\ ids[p + 1] = pad_token /\ LastWindow.attention_mask[p + 1] = 0

\* C23 witness: postprocess has searched the second window of a query,
\* behind a question of several tokens.
C23_Witness ==
  /\ span # <<>>
  /\ pc = "next"
  /\ LastWindow.start > 0
  /\ Len(question_tokens) >= 2
  /\ ContextEndIdx(LastWindow.pad_number) - ContextStartIdx(question_tokens) >= 2

\* The indices into context_tokens_start_end that postprocess used for the
\* window it has just searched.
AbsStart == span[1].max_s + WindowStart
AbsEnd == span[1].max_e + WindowStart

\* C24: on a context of n >= 1 tokens, the indices max_start + start_idx
\* and max_end + start_idx with which postprocess reads
\* context_tokens_start_end are both in 0 .. n - 1, the first not above the
\* second, and they lie in the slice of the window searched.
C24_TokenIndexInBounds ==
  (span # <<>> /\ pc = "next" /\ CtxTokens >= 1) =>
    /\ 0 <= AbsStart
    /\ AbsStart <= AbsEnd
    /\ AbsEnd < CtxTokens
    /\ AbsEnd < Len(context_tokens_start_end)
    /\ WindowStart <= AbsStart
    /\ AbsEnd < WindowStart + WindowTokens

\* C24 witness: the span selected ends on the last token of a context
\* longer than the longest span, and starts past token 0 of the context.
C24_Witness ==
  /\ span # <<>>
  /\ pc = "next"
  /\ CtxTokens > MaxAnswerDiag
  /\ AbsEnd = CtxTokens - 1
  /\ AbsStart > 0

\* C25: in an interactive run, once answering a question has raised (the
\* question too long, the inference call failing, or any other error), the
\* error has left run_question_answering: the run is over, the question got
\* no answer, and nothing is read or answered after it.
C25_ErrorEndsSession ==
  (example_question = <<>> /\ error # "none") =>
    /\ pc = "raised"
    /\ question # <<>>
    /\ answer = <<>>
    /\ answered = asked - 1
    /\ ~ENABLED Next

\* C25 witness: an interactive run ended on a question too long for the
\* input, before any window was built.
C25_Witness ==
  /\ example_question = <<>>
  /\ error = "RuntimeError"
  /\ asked >= 1
  /\ emitted = <<>>

\* C26: in the OpenVINO evaluation loop the prediction for test sample i is
\* compared against the sorted target list of that same sample, and so,
\* when both loops have run and the two networks predicted the same top-K
\* ids for every sample, the two accumulated accuracies are equal.
C26_OwnTargets ==
  /\ (conve_pc = "ov" /\ loop_i > 0) => gt = <<sorted(triples_list[loop_i][3])>>
  /\ (conve_pc = "done" /\ ov_model = pt_model) => ov_acc = pt_acc

\* C27: the frame count printed in the final summary of the monodepth video
\* cell is the number of frames the loop ran inference on and wrote to the
\* output video, whatever the settings, the video and the way out.
C27_ReportedFrameCount ==
  summary # <<>> =>
    /\ summary[1] = Len(written)
    /\ (exit_by # "interrupt" /\ exit_by # "error") => summary[1] = Len(inferred)

\* C28: on every way out of the monodepth video loop (the video ends, the
\* frame limit is reached, a KeyboardInterrupt, another error) the output
\* writer and the input capture are both released before the summary is
\* printed and before the cell is left, and no frame is written once the
\* writer is released.
VideoLoopLeft == video_pc \in {"summary", "done", "raised"}

C28_VideoResourcesReleased ==
  /\ [](VideoLoopLeft => (exit_by # "none" /\ ~out_opened /\ ~cap_opened))
  /\ [](summary # <<>> => (~out_opened /\ ~cap_opened))
  /\ [][~out_opened => written' = written]_vars

\* C28 witness: an error other than KeyboardInterrupt left the loop after a
\* frame was written, both resources are released and the summary is out.
C28_Witness ==
  /\ exit_by = "error"
  /\ video_pc = "raised"
  /\ written # <<>>
  /\ summary # <<>>
  /\ ~out_opened
  /\ ~cap_opened

\* The frame limit as stated: int(NUM_SECONDS * fps), and the whole video
\* when NUM_SECONDS is 0.
StatedFrameLimit ==
  IF NUM_SECONDS = 0 THEN frame_count ELSE IntOfProduct(NUM_SECONDS, input_fps)

\* The frames 0, ADVANCE_FRAMES, 2 * ADVANCE_FRAMES, ... that are readable
\* and below the limit.
FramesToProcess(limit) ==
  {f \in 0..(frame_count - 1) :
     f % ADVANCE_FRAMES = 0 /\ f < readable_frames /\ f < limit}

\* C29: the monodepth video loop runs inference on the frames 0,
\* ADVANCE_FRAMES, 2 * ADVANCE_FRAMES, ... that are readable and below the
\* frame limit, in increasing order and on nothing else, and on all of them
\* when the loop ends by itself; the limit is int(NUM_SECONDS * fps), or
\* the whole video when NUM_SECONDS is 0.
C29_FrameSelection ==
  /\ \A k \in 1..(Len(inferred) - 1) : inferred[k] < inferred[k + 1]
  /\ \A k \in DOMAIN inferred : inferred[k] \in FramesToProcess(StatedFrameLimit)
  /\ exit_by \in {"end", "limit"} =>
       \A f \in FramesToProcess(StatedFrameLimit) : \E k \in DOMAIN inferred : inferred[k] = f

\* C30: convert_result_to_image draws a box for exactly the detections whose
\* confidence is greater than the threshold it was called with, at the
\* positions computed from the bgr_image it was given.
C30_ThresholdHonoured ==
  detect_pc = "done" =>
    rgb_image = crop_images(call_bgr_image, call_resized_image, call_boxes,
                            call_threshold)

====
